---- MODULE Spec2Model ----
(***************************************************************************)
(* A model of the union-find structure of src/lib.rs: a growable vector    *)
(* `backing` of Element records (parent, rank) with the operations new,    *)
(* fresh, find (two loops: root search, then path rewriting) and union     *)
(* (by rank).  Element ids are 0-based as in the source; the TLA+ sequence *)
(* `backing` is 1-based, so the record of id i is backing[i + 1].          *)
(***************************************************************************)
EXTENDS Integers, Sequences, FiniteSets, TLC

\* Largest number of records the model lets the vector grow to.
MaxSize == 4

\* Number of records of the store in the union-only runs (SpecDeep).
DeepSize == 6

\* The value standing for Option::None / "no value".
None == -1

VARIABLES backing, prev, last, classes, memo

vars == <<backing, prev, last, classes, memo>>

\* struct Element { parent: usize, rank: usize }
Element(p, r) == [parent |-> p, rank |-> r]

\* backing.len()
len(b) == Len(b)

\* The ids that have a record in b: [0, len).
Ids(b) == 0 .. (len(b) - 1)

\* The ids the environment may pass: every valid id and, always, invalid ones.
ArgIds == 0 .. MaxSize

\* new with every record given parent 0 instead of its own index.
new_parent_zero(size) == [k \in 1 .. size |-> Element(0, 0)]

\* UnionFind::new: (0..size).map(|i| Element { parent: i, rank: 0 })
new(size) == [k \in 1 .. size |-> Element(k - 1, 0)]

\* fresh with the record pointing at id 0 instead of at itself.
fresh_parent_zero(b) == Append(b, Element(0, 0))

\* UnionFind::fresh: push Element { parent: len, rank: 0 }
fresh(b) == Append(b, Element(len(b), 0))

\* fresh returning the length read after the push.
fresh_ret_after_push(b) == len(b) + 1

\* The id fresh returns: the length read before the push.
fresh_ret(b) == len(b)

\* First loop of find.  The record read in every iteration is that of
\* element_id (the source indexes backing[element_id], not backing[current]).
RECURSIVE find_root(_, _, _)
find_root(b, element_id, current) ==
  LET element == b[element_id + 1]
  IN  IF element.parent = current
        THEN current
        ELSE find_root(b, element_id, element.parent)

\* The second loop of find writing the parent before it tests for the break,
\* so that the self-parented record that ends the walk is rewritten too.
RECURSIVE find_compress_write_first(_, _, _)
find_compress_write_first(b, rep, current) ==
  LET element == b[current + 1]
      written == [b EXCEPT ![current + 1].parent = rep]
  IN  IF current = element.parent
        THEN written
        ELSE find_compress_write_first(written, rep, element.parent)

\* Second loop of find: rewrite the parent of every record met while walking
\* the old parent links from current, until a self-parented record is met.
RECURSIVE find_compress(_, _, _)
find_compress(b, rep, current) ==
  LET element == b[current + 1]
  IN  IF current = element.parent
        THEN b
        ELSE find_compress([b EXCEPT ![current + 1].parent = rep],
                           rep, element.parent)

\* The number of iterations the first loop of find makes before its break,
\* None when it has not exited after fuel iterations.
RECURSIVE find_root_iters(_, _, _, _)
find_root_iters(b, element_id, current, fuel) ==
  LET element == b[element_id + 1]
  IN  IF fuel = 0 THEN None
      ELSE IF element.parent = current THEN 1
      ELSE LET rest == find_root_iters(b, element_id, element.parent, fuel - 1)
           IN  IF rest = None THEN None ELSE 1 + rest

\* The second loop of find without the update of current.
RECURSIVE find_compress_iters_no_advance(_, _, _, _)
find_compress_iters_no_advance(b, rep, current, fuel) ==
  LET element == b[current + 1]
  IN  IF fuel = 0 THEN None
      ELSE IF current = element.parent THEN 1
      ELSE LET rest == find_compress_iters_no_advance(
                         [b EXCEPT ![current + 1].parent = rep],
                         rep, current, fuel - 1)
           IN  IF rest = None THEN None ELSE 1 + rest

\* The number of iterations the second loop of find makes before its break,
\* None when it has not exited after fuel iterations.
RECURSIVE find_compress_iters(_, _, _, _)
find_compress_iters(b, rep, current, fuel) ==
  LET element == b[current + 1]
  IN  IF fuel = 0 THEN None
      ELSE IF current = element.parent THEN 1
      ELSE LET rest == find_compress_iters(
                         [b EXCEPT ![current + 1].parent = rep],
                         rep, element.parent, fuel - 1)
           IN  IF rest = None THEN None ELSE 1 + rest

\* The value find returns: None when out of range, else Some(rep).
find_ret(b, element_id) ==
  IF element_id >= len(b)
    THEN None
    ELSE find_root(b, element_id, element_id)

\* The vector after find.
find_backing(b, element_id) ==
  IF element_id >= len(b)
    THEN b
    ELSE find_compress(b, find_root(b, element_id, element_id), element_id)

\* union_link with the tie branch indexing the vector by the rank of rep1
\* (a usize, like an id) instead of rep1 when it writes the parent.
union_link_rank_index(b, rep1, rep2) ==
  IF b[rep1 + 1].rank < b[rep2 + 1].rank
    THEN [b EXCEPT ![rep1 + 1].parent = rep2]
    ELSE IF b[rep1 + 1].rank > b[rep2 + 1].rank
      THEN [b EXCEPT ![rep2 + 1].parent = rep1]
      ELSE [b EXCEPT ![b[rep1 + 1].rank + 1].parent = rep2,
                     ![rep2 + 1].rank = b[rep2 + 1].rank + 1]

\* union_link with the tie branch incrementing the rank of rep1, the root that
\* was just made a child.
union_link_rank_of_child(b, rep1, rep2) ==
  IF b[rep1 + 1].rank < b[rep2 + 1].rank
    THEN [b EXCEPT ![rep1 + 1].parent = rep2]
    ELSE IF b[rep1 + 1].rank > b[rep2 + 1].rank
      THEN [b EXCEPT ![rep2 + 1].parent = rep1]
      ELSE [b EXCEPT ![rep1 + 1].parent = rep2,
                     ![rep1 + 1].rank = b[rep1 + 1].rank + 1]

\* union_link with the tie branch making rep2 the child of rep1.
union_link_tie_rep2_child(b, rep1, rep2) ==
  IF b[rep1 + 1].rank < b[rep2 + 1].rank
    THEN [b EXCEPT ![rep1 + 1].parent = rep2]
    ELSE IF b[rep1 + 1].rank > b[rep2 + 1].rank
      THEN [b EXCEPT ![rep2 + 1].parent = rep1]
      ELSE [b EXCEPT ![rep2 + 1].parent = rep1,
                     ![rep1 + 1].rank = b[rep1 + 1].rank + 1]

\* The rank comparison and the link of union, on two distinct representatives.
union_link(b, rep1, rep2) ==
  IF b[rep1 + 1].rank < b[rep2 + 1].rank
    THEN [b EXCEPT ![rep1 + 1].parent = rep2]
    ELSE IF b[rep1 + 1].rank > b[rep2 + 1].rank
      THEN [b EXCEPT ![rep2 + 1].parent = rep1]
      ELSE [b EXCEPT ![rep1 + 1].parent = rep2,
                     ![rep2 + 1].rank = b[rep2 + 1].rank + 1]

\* union linking the two arguments themselves instead of their
\* representatives.
union_in_range_link_elements(b, element1, element2) ==
  LET rep1 == find_ret(b, element1)
      b1   == find_backing(b, element1)
      rep2 == find_ret(b1, element2)
      b2   == find_backing(b1, element2)
  IN  IF rep1 = rep2 THEN b2 ELSE union_link(b2, element1, element2)

\* The else branch of union: both ids are in range.
union_in_range(b, element1, element2) ==
  LET rep1 == find_ret(b, element1)
      b1   == find_backing(b, element1)
      rep2 == find_ret(b1, element2)
      b2   == find_backing(b1, element2)
  IN  IF rep1 = rep2 THEN b2 ELSE union_link(b2, rep1, rep2)

\* union that resolves element1 before it checks element2.
union_backing_find_first(b, element1, element2) ==
  IF element1 >= len(b)
    THEN b
    ELSE IF element2 >= len(b)
      THEN find_backing(b, element1)
      ELSE union_in_range(b, element1, element2)

\* The vector after union.
union_backing(b, element1, element2) ==
  IF element1 >= len(b) \/ element2 >= len(b)
    THEN b
    ELSE union_in_range(b, element1, element2)

----------------------------------------------------------------------------
(* The reference partition: the sets as the calls made so far define them. *)
(* classes[i + 1] is the least id of the set of i.                         *)

Min2(a, b) == IF a < b THEN a ELSE b

classes_union(c, element1, element2) ==
  IF element1 >= Len(c) \/ element2 >= Len(c)
    THEN c
    ELSE LET c1 == c[element1 + 1]
             c2 == c[element2 + 1]
         IN  [k \in 1 .. Len(c) |->
                IF c[k] = c1 \/ c[k] = c2 THEN Min2(c1, c2) ELSE c[k]]

----------------------------------------------------------------------------
Init ==
  /\ \E size \in 0 .. MaxSize :
       /\ backing = new(size)
       /\ prev = new(size)
       /\ last = [op |-> "new", a |-> size, b |-> None, ret |-> None,
                  seen |-> None]
       /\ classes = [k \in 1 .. size |-> k - 1]
       /\ memo = [k \in 1 .. size |-> None]

Fresh ==
  /\ len(backing) < MaxSize
  /\ backing' = fresh(backing)
  /\ prev' = backing
  /\ last' = [op |-> "fresh", a |-> None, b |-> None,
              ret |-> fresh_ret(backing),
              seen |-> None]
  /\ classes' = Append(classes, len(backing))
  /\ memo' = Append(memo, None)

Find(element_id) ==
  /\ backing' = find_backing(backing, element_id)
  /\ prev' = backing
  /\ last' = [op |-> "find", a |-> element_id, b |-> None,
              ret |-> find_ret(backing, element_id),
              seen |-> IF element_id >= len(backing)
                         THEN None ELSE memo[element_id + 1]]
  /\ classes' = classes
  /\ memo' = IF element_id >= len(backing)
               THEN memo
               ELSE [memo EXCEPT ![element_id + 1] =
                                     find_ret(backing, element_id)]

Union(element1, element2) ==
  /\ backing' = union_backing(backing, element1, element2)
  /\ prev' = backing
  /\ last' = [op |-> "union", a |-> element1, b |-> element2, ret |-> None,
              seen |-> None]
  /\ classes' = classes_union(classes, element1, element2)
  /\ memo' = [k \in 1 .. Len(memo) |-> None]

Next ==
  \/ Fresh
  \/ \E element_id \in ArgIds : Find(element_id)
  \/ \E element1, element2 \in ArgIds : Union(element1, element2)

Spec == Init /\ [][Next]_vars

\* Runs of a larger store, new(DeepSize), on which find and union are called
\* with valid ids.  Only the vector and the reference partition are followed:
\* the record of the last call (prev, last, memo) is left as it was.
DeepIds == 0 .. (DeepSize - 1)

InitDeep ==
  /\ backing = new(DeepSize)
  /\ prev = new(DeepSize)
  /\ last = [op |-> "new", a |-> DeepSize, b |-> None, ret |-> None,
             seen |-> None]
  /\ classes = [k \in 1 .. DeepSize |-> k - 1]
  /\ memo = [k \in 1 .. DeepSize |-> None]

FindDeep(element_id) ==
  /\ backing' = find_backing(backing, element_id)
  /\ UNCHANGED <<prev, last, classes, memo>>

UnionDeep(element1, element2) ==
  /\ backing' = union_backing(backing, element1, element2)
  /\ classes' = classes_union(classes, element1, element2)
  /\ UNCHANGED <<prev, last, memo>>

NextDeep ==
  \/ \E element_id \in DeepIds : FindDeep(element_id)
  \/ \E element1, element2 \in DeepIds : UnionDeep(element1, element2)

SpecDeep == InitDeep /\ [][NextDeep]_vars

----------------------------------------------------------------------------
(* Vocabulary of the properties.                                           *)

\* The self-parented record reached from i by following parent links.
RECURSIVE Root(_, _)
Root(b, i) == IF b[i + 1].parent = i THEN i ELSE Root(b, b[i + 1].parent)

\* The outcome of the test find(x) == find(y), the two calls made in this
\* order on the vector b.
SameFind(b, x, y) == find_ret(b, x) = find_ret(find_backing(b, x), y)

\* The last call was find / union and every id passed to it was valid.
ValidFind == last.op = "find" /\ last.a < len(prev)
ValidUnion == last.op = "union" /\ last.a < len(prev) /\ last.b < len(prev)

\* i and j are in the same set of the reference partition.
Connected(i, j) == classes[i + 1] = classes[j + 1]

\* The ranks of b, in id order.
Ranks(b) == [k \in 1 .. len(b) |-> b[k].rank]

TypeOK ==
  \A i \in Ids(backing) :
    backing[i + 1].parent \in Ids(backing) /\ backing[i + 1].rank >= 0

----------------------------------------------------------------------------
\* C1: immediately after union(x, y) on valid ids, the calls find(x) and
\* find(y) return the same id.
C1_PostUnionEquivalence ==
  ValidUnion => SameFind(backing, last.a, last.b)

\* C2: any two elements connected by a chain of earlier union calls get
\* find(a) == find(b), whatever calls were made in between.
C2_MergedStayMerged ==
  \A a, b \in Ids(backing) : Connected(a, b) => SameFind(backing, a, b)

\* C3: find on a valid id leaves the partition unchanged: a and b reach the
\* same root after the call iff they did before it.
C3_FindKeepsPartition ==
  ValidFind =>
    \A a, b \in Ids(prev) :
      (Root(prev, a) = Root(prev, b)) <=> (Root(backing, a) = Root(backing, b))

\* C4: find on a valid id returns the root reached by following the parent
\* links from the id in the state before the call.
C4_FindReturnsRoot ==
  ValidFind => last.ret = Root(prev, last.a)

\* C5: union(x, y) on valid ids does not change whether find(z) == find(w)
\* for z and w that are connected neither to x nor to y before the call.
\* (After the call the sets of x and y are one set of the reference partition,
\* so z is outside it exactly when it was connected to neither before.)
C5_NonMergeIsolation ==
  ValidUnion =>
    \A z, w \in Ids(prev) :
      (~Connected(z, last.a) /\ ~Connected(w, last.a))
        => (SameFind(prev, z, w) <=> SameFind(backing, z, w))

C5_Witness ==
  /\ ValidUnion
  /\ backing # prev
  /\ \E z, w \in Ids(prev) :
       /\ z # w
       /\ ~Connected(z, last.a) /\ ~Connected(w, last.a)
       /\ SameFind(backing, z, w)

\* C6: right after new(n) every element is its own representative; two
\* distinct elements have equal find results only if a chain of union calls
\* connects them; an element never merged with anything is its own
\* representative.
C6_NoFalseMerges ==
  /\ last.op = "new" => \A i \in Ids(backing) : find_ret(backing, i) = i
  /\ \A a, b \in Ids(backing) :
       (a # b /\ SameFind(backing, a, b)) => Connected(a, b)
  /\ \A a \in Ids(backing) :
       (\A b \in Ids(backing) : Connected(a, b) => b = a)
         => find_ret(backing, a) = a

C6_Witness ==
  /\ ValidUnion
  /\ \E a, b, c \in Ids(backing) :
       /\ a # b /\ SameFind(backing, a, b)
       /\ \A d \in Ids(backing) : Connected(c, d) => d = c
       /\ ~SameFind(backing, a, c)

\* C7: two calls of find(x) with no union call between them return the same
\* id, whatever find calls on other ids and fresh calls separate them.
C7_FindStable ==
  (ValidFind /\ last.seen # None) => last.ret = last.seen

\* C8: calling union(x, y) twice in a row on valid ids leaves every find
\* result as it was after the first call: find(e) evaluated after the second
\* call equals find(e) evaluated after the first, for every element e.
C8_IdempotentUnion ==
  \A x, y \in Ids(backing) :
    LET once  == union_backing(backing, x, y)
        twice == union_backing(once, x, y)
    IN  \A e \in Ids(backing) : find_ret(twice, e) = find_ret(once, e)

\* C9: union(x, y) with x == y, or with x and y already in the same set,
\* changes no rank and does not change, for any a and b, whether
\* find(a) == find(b).
C9_SameSetUnionNoOp ==
  (ValidUnion /\ (last.a = last.b \/ SameFind(prev, last.a, last.b))) =>
    /\ Ranks(backing) = Ranks(prev)
    /\ \A a, b \in Ids(prev) : SameFind(prev, a, b) <=> SameFind(backing, a, b)

\* C10: find with an id >= the size returns None and changes nothing; union
\* with at least one id >= the size changes nothing, also when the other id
\* is valid.
C10_OutOfRangeNoMutation ==
  /\ (last.op = "find" /\ last.a >= len(prev)) =>
       (last.ret = None /\ backing = prev)
  /\ (last.op = "union" /\ (last.a >= len(prev) \/ last.b >= len(prev))) =>
       backing = prev

C10_Witness ==
  /\ last.op = "union"
  /\ last.a < len(prev) /\ last.b >= len(prev)
  /\ find_backing(prev, last.a) # prev

\* The records of b with an id below n.
Below(b, n) == SubSeq(b, 1, n)

\* No union call has merged the set of e with another set.
NeverMerged(e) == \A d \in Ids(backing) : Connected(e, d) => d = e

\* C11: fresh changes no existing record, so no existing element's find
\* result changes, and the new element is its own representative; an element
\* stays its own representative (a self-parented record of rank 0) as long as
\* no union call has merged its set with another.
C11_GrowthPreservesHistory ==
  /\ last.op = "fresh" =>
       /\ Below(backing, len(prev)) = prev
       /\ \A i \in Ids(prev) : find_ret(backing, i) = find_ret(prev, i)
       /\ find_ret(backing, last.ret) = last.ret
  /\ \A e \in Ids(backing) :
       NeverMerged(e) =>
         (find_ret(backing, e) = e /\ backing[e + 1] = Element(e, 0))

C11_Witness ==
  /\ last.op = "fresh"
  /\ \E i \in Ids(prev) : prev[i + 1].parent # i
  /\ NeverMerged(last.ret) /\ find_ret(backing, last.ret) = last.ret

\* C12: fresh returns the number of records before the call and makes the
\* size one larger; new(size) creates the ids 0 .. size-1; find and union do
\* not change the number of records and the size never decreases.
C12_DenseIds ==
  /\ DOMAIN backing = 1 .. len(backing)
  /\ len(backing) >= len(prev)
  /\ last.op = "new" => len(backing) = last.a
  /\ last.op = "fresh" =>
       (last.ret = len(prev) /\ len(backing) = len(prev) + 1
         /\ Ids(backing) = Ids(prev) \cup {last.ret})
  /\ last.op \in {"find", "union"} => len(backing) = len(prev)

C12_Witness ==
  /\ last.op = "fresh"
  /\ len(prev) > 0
  /\ \E i \in Ids(prev) : prev[i + 1].parent # i

\* Following the parent links from i meets a self-parented record within
\* fuel steps.
RECURSIVE ReachesRoot(_, _, _)
ReachesRoot(b, i, fuel) ==
  IF b[i + 1].parent = i
    THEN TRUE
    ELSE IF fuel = 0 THEN FALSE
         ELSE ReachesRoot(b, b[i + 1].parent, fuel - 1)

\* C13: every parent field is a valid id below the size, and following the
\* parent links from any element reaches a self-parented element in finitely
\* many steps: the parent graph has no cycle but the self-loops of roots.
C13_Forest ==
  /\ \A i \in Ids(backing) : backing[i + 1].parent \in Ids(backing)
  /\ \A i \in Ids(backing) : ReachesRoot(backing, i, len(backing))

C13_Witness ==
  /\ last.op = "union"
  /\ \E i \in Ids(backing) :
       LET p == backing[i + 1].parent
       IN  p # i /\ backing[p + 1].parent # p

\* The elements on the parent path of b from i up to and including its root.
RECURSIVE PathOf(_, _)
PathOf(b, i) ==
  IF b[i + 1].parent = i THEN {i} ELSE {i} \cup PathOf(b, b[i + 1].parent)

\* The number of parent links of b from i to its root.
RECURSIVE Depth(_, _)
Depth(b, i) == IF b[i + 1].parent = i THEN 0 ELSE 1 + Depth(b, b[i + 1].parent)

\* C14: after find(id) on a valid id returns rep, every non-root element of
\* the pre-call parent path of id has parent == rep, the pre-call root of the
\* set is rep itself, and rep is self-parented.
C14_PathCompression ==
  ValidFind =>
    /\ \A e \in PathOf(prev, last.a) :
         prev[e + 1].parent # e => backing[e + 1].parent = last.ret
    /\ Root(prev, last.a) = last.ret
    /\ backing[last.ret + 1].parent = last.ret

\* C15: an element that is a non-root (parent # own id) before a call is a
\* non-root after it: no find, union or fresh makes a non-root a root again.
C15_RoleMonotonic ==
  \A i \in Ids(prev) :
    prev[i + 1].parent # i => backing[i + 1].parent # i

\* C16: for every root r, the height of the tree rooted at r (the longest
\* parent path from an element of the tree up to r) is at most rank[r].
C16_RankBoundsHeight ==
  \A i \in Ids(backing) :
    Depth(backing, i) <= backing[Root(backing, i) + 1].rank

\* The two find results of the last union call (on valid ids) and the vector
\* between its second find and its link.
LastRep1 == find_ret(prev, last.a)
LastRep2 == find_ret(find_backing(prev, last.a), last.b)
LastFound == find_backing(find_backing(prev, last.a), last.b)

\* The ids whose rank the last call changed.
RankChanged == {i \in Ids(prev) : backing[i + 1].rank # prev[i + 1].rank}

\* C17: no call decreases a rank; find and fresh change no existing rank; a
\* union call changes at most one rank, and it changes one exactly when its
\* two find results are distinct roots of equal rank: then the rank of the
\* root that stays self-parented increases by exactly one.
C17_RankBookkeeping ==
  /\ \A i \in Ids(prev) : backing[i + 1].rank >= prev[i + 1].rank
  /\ last.op \in {"find", "fresh"} => RankChanged = {}
  /\ last.op = "union" => Cardinality(RankChanged) <= 1
  /\ (last.op = "union" /\ ~ValidUnion) => RankChanged = {}
  /\ ValidUnion =>
       LET tie == /\ LastRep1 # LastRep2
                  /\ LastFound[LastRep1 + 1].parent = LastRep1
                  /\ LastFound[LastRep2 + 1].parent = LastRep2
                  /\ LastFound[LastRep1 + 1].rank = LastFound[LastRep2 + 1].rank
       IN  /\ RankChanged # {} <=> tie
           /\ \A i \in RankChanged :
                /\ i \in {LastRep1, LastRep2}
                /\ backing[i + 1].parent = i
                /\ backing[i + 1].rank = prev[i + 1].rank + 1
                /\ \E j \in {LastRep1, LastRep2} : backing[j + 1].parent = i /\ j # i

C17_Witness ==
  /\ ValidUnion
  /\ RankChanged # {}
  /\ \E i \in RankChanged : backing[i + 1].rank = 2

\* C18: in union(x, y) on valid ids with distinct find results rep1 and rep2,
\* both are self-parented when the link is made, and apart from what the two
\* finds changed exactly one parent changes: that of rep1 becomes rep2 when
\* rank[rep1] <= rank[rep2], else that of rep2 becomes rep1.  With equal find
\* results no link is made.
C18_LinkRootToRoot ==
  ValidUnion =>
    IF LastRep1 = LastRep2
      THEN \A i \in Ids(prev) :
             backing[i + 1].parent = LastFound[i + 1].parent
      ELSE LET child  == IF LastFound[LastRep1 + 1].rank
                              <= LastFound[LastRep2 + 1].rank
                           THEN LastRep1 ELSE LastRep2
               winner == IF child = LastRep1 THEN LastRep2 ELSE LastRep1
           IN  /\ LastFound[LastRep1 + 1].parent = LastRep1
               /\ LastFound[LastRep2 + 1].parent = LastRep2
               /\ backing[child + 1].parent = winner
               /\ \A i \in Ids(prev) \ {child} :
                    backing[i + 1].parent = LastFound[i + 1].parent

C18_Witness ==
  /\ ValidUnion
  /\ LastRep1 # LastRep2
  /\ LastFound[LastRep1 + 1].rank > LastFound[LastRep2 + 1].rank
  /\ last.a # LastRep1

\* find(element_id) on the vector b runs to completion: it returns on the
\* bounds check, or its first loop exits within 2 iterations and its second
\* within len + 1 (one per record, and the one that breaks).
FindTerminates(b, element_id) ==
  \/ element_id >= len(b)
  \/ /\ find_root_iters(b, element_id, element_id, 2) # None
     /\ find_compress_iters(b, find_root(b, element_id, element_id),
                            element_id, len(b) + 1) # None

\* C19: in every reachable state every find(id) and every union(a, b), with
\* valid or invalid ids, terminates: both loops of find exit after finitely
\* many iterations, in the find calls made directly and in the two that
\* union makes one after the other.
C19_Termination ==
  \A a, b \in ArgIds :
    /\ FindTerminates(backing, a)
    /\ (a < len(backing) /\ b < len(backing)) =>
         FindTerminates(find_backing(backing, a), b)

C19_Witness ==
  /\ last.op = "find" /\ last.a >= len(prev)
  /\ \E a \in Ids(backing) :
       /\ find_root_iters(backing, a, a, 2) = 2
       /\ find_compress_iters(backing, find_root(backing, a, a), a,
                              len(backing) + 1) = 3

\* C20: find on a valid id changes only parent fields of elements on the
\* pre-call parent path from the id to the root of its set: no rank, no
\* record off that path, never the parent of an element that is a root
\* before the call, and not the number of records.
C20_FindFrame ==
  ValidFind =>
    /\ len(backing) = len(prev)
    /\ Ranks(backing) = Ranks(prev)
    /\ \A i \in Ids(prev) :
         backing[i + 1].parent # prev[i + 1].parent =>
           (i \in PathOf(prev, last.a) /\ prev[i + 1].parent # i)

C20_Witness ==
  /\ ValidFind
  /\ backing # prev
  /\ \E i \in Ids(prev) : i \notin PathOf(prev, last.a) /\ prev[i + 1].parent # i
====
